---- MODULE Spec2Model ----
(***************************************************************************)
(* Model of progress.go (package clt): the Progress controller, its three  *)
(* renderer goroutines (renderSpinner, renderBar, renderLoading), the      *)
(* channels p.c / p.cf, the WaitGroup p.wg and the mutex p.mtx.             *)
(*                                                                         *)
(* One caller goroutine issues the public calls one after another; every   *)
(* Start launches one renderer goroutine.  float64 fractions are fixed     *)
(* point numbers with denominator FracDen.  Strings are tuples of          *)
(* characters, so that len() is Len().                                     *)
(***************************************************************************)
EXTENDS Integers, Sequences, FiniteSets, TLC

\* ------------------------------------------------------------- constants
\* const ( success int = iota; fail )
success == 0
fail == 1
\* const ( spinner int = iota; bar; loading )
spinner == 0
bar == 1
loading == 2

\* DisplayLength set by NewProgressSpinner / NewProgressBar / NewLoadingMessage
SpinnerDisplayLength == 30
BarDisplayLength == 20
LoadingDisplayLength == 0

\* Start: make(chan float64, 2) for a bar, make(chan int) otherwise
\* (for comparison: every channel unbuffered)
ChanCapUnbuffered(st) == 0
ChanCap(st) == IF st = bar THEN 2 ELSE 0

\* float64 as fixed point: the value v stands for the fraction v / FracDen
FracDen == 4
\* the sentinels -1.0 and -2.0 of renderBar, and the bound 1.0 of Update
SentinelOK == -1 * FracDen
SentinelFail == -2 * FracDen
One == 1 * FracDen
Quarter == FracDen \div 4

\* Wheel Spinner = []string{"|", "/", "-", "\\"}
Wheel == << <<"|">>, <<"/">>, <<"-">>, <<"\\">> >>

\* ---------------------------------------------------------------- bounds
\* calls the caller makes in one run
MaxCalls == 4
\* renderer goroutines launched in one run (calls of Start)
MaxStarts == 2
\* animation frames the spinner / loading renderers draw in one run
MaxFrames == 5

\* inputs: the arguments of Update (-2.0, -1.0, -0.5, 0.25, 1.0, 1.5), the
\* prompts of the constructors and of UpdatePrompt, the delay of
\* NewLoadingMessage (0 or positive)
Fractions == {-8, -4, -2, 1, 4, 6}
InitPrompt == <<"u", "p">>
Prompts == {<<"a">>, <<"x", "y", "z">>}
Configs == {[style |-> spinner, delay |-> FALSE], [style |-> bar, delay |-> FALSE],
            [style |-> loading, delay |-> FALSE], [style |-> loading, delay |-> TRUE]}

VARIABLES
    style,      \* p.style
    delay,      \* p.delay > 0
    Prompt,     \* p.Prompt
    chans,      \* the channels made by Start, in order; p.c / p.cf is the last
    wg,         \* p.wg counter
    mtx,        \* p.mtx holder: 0 free, -1 the caller, r > 0 renderer r
    rend,       \* the renderer goroutines, in launch order
    output,     \* the writes p.output has received, in order
    cpc,        \* where the caller goroutine is
    carg,       \* the value the caller is sending
    newPrompt,  \* the prompt last given: to the constructor, or to UpdatePrompt
    ncalls,     \* calls made so far
    phase,      \* lifecycle of the controller as the caller drove it
    term,       \* the first of Success / Fail called: "none", "success", "fail"
    negSent,    \* an Update with a negative fraction was called
    updates,    \* the fractions passed to Update, in call order
    sigEarly,   \* Success / Fail was called before the delay ticker had fired
    scen        \* progress along Start, Update(0.25), Update(1.0), Success

vars == <<style, delay, Prompt, chans, wg, mtx, rend, output, cpc, carg,
          newPrompt, ncalls, phase, term, negSent, updates, sigEarly, scen>>

\* ----------------------------------------------------------- pure helpers
\* the fractions tried for Update: on a spinner or loading controller p.cf is
\* nil and Update never gets to use its argument, so one fraction stands for all
UpdateArgs == IF style = bar THEN Fractions ELSE {Quarter}

DisplayLength ==
    IF style = spinner THEN SpinnerDisplayLength
    ELSE IF style = bar THEN BarDisplayLength ELSE LoadingDisplayLength

\* p.spinsteps: Wheel for NewProgressSpinner; the caller's choice for loading
spinsteps == Wheel

\* Go's int(x) of the quotient a / b (b > 0): truncation toward zero
TruncDiv(a, b) == IF a >= 0 THEN a \div b ELSE -((-a) \div b)

\* eqLen := int(result * float64(p.DisplayLength))
\* (for comparison: the percentage taken for the fill length)
eqLenOfPercent(result) == TruncDiv(result * 100, FracDen)
eqLenOf(result) == TruncDiv(result * DisplayLength, FracDen)

\* "%2.0f" of 100.0*result: rounding to nearest, ties to even
RoundDiv(a, b) ==
    LET q == a \div b
        r == a % b
    IN  IF 2 * r < b THEN q
        ELSE IF 2 * r > b THEN q + 1
        ELSE IF q % 2 = 0 THEN q ELSE q + 1
pctOf(result) == RoundDiv(100 * result, FracDen)

\* a lookup that is one frame ahead of the index
spinLookupAhead(i, steps) == steps[((i + 1) % Len(steps)) + 1]

\* spinLookup(i, steps) = steps[i%len(steps)]   (0-based index i)
spinLookup(i, steps) == steps[(i % Len(steps)) + 1]

\* Update: if pct >= 1.0 { pct = 1.0 }
Clamp(pct) == IF pct >= One THEN One ELSE pct

\* one write to p.output: the cursor sequence ("hide" is \x1b[?25l, "show" is
\* \x1b[?25h), the prompt, the number of fill characters ("=", or "X" in a
\* "fail" frame) and of blanks, the marker after them, and the final newline
Write(kind, cursor, label, fill, blank, mark, nl) ==
    [kind |-> kind, cursor |-> cursor, label |-> label, fill |-> fill,
     blank |-> blank, mark |-> mark, nl |-> nl]

NoMsg == [v |-> 0, src |-> "none", f |-> 0]
Msg(v, src, f) == [v |-> v, src |-> src, f |-> f]

\* (for comparison: a numeric channel that every style allocates)
cfShared == Len(chans)
\* the channel field a call uses: p.cf for Update and a bar, p.c otherwise;
\* 0 is the nil channel
cf == IF style = bar THEN Len(chans) ELSE 0
c == IF style = bar THEN 0 ELSE Len(chans)
TermChan == IF style = bar THEN cf ELSE c

NewRenderer ==
    [pc |-> IF style = spinner THEN "sp_init"
            ELSE IF style = bar THEN "bar_range" ELSE "ld_init",
     i |-> 0, result |-> NoMsg, kind |-> "none", timer |-> "off"]

Init ==
    /\ \E cfg \in Configs : style = cfg.style /\ delay = cfg.delay
    /\ Prompt = InitPrompt
    /\ chans = << >>
    /\ wg = 0
    /\ mtx = 0
    /\ rend = << >>
    /\ output = << >>
    /\ cpc = "idle"
    /\ carg = NoMsg
    /\ newPrompt = InitPrompt
    /\ ncalls = 0
    /\ phase = "new"
    /\ term = "none"
    /\ negSent = FALSE
    /\ updates = << >>
    /\ sigEarly = FALSE
    /\ scen = 0

\* ------------------------------------------------------------ the caller
\* bookkeeping of the calls made (not program state)
CallBook(op, arg) ==
    /\ ncalls' = ncalls + 1
    /\ phase' =
         IF phase = "violated" THEN "violated"
         ELSE IF op = "prompt" THEN (IF phase \in {"new", "running"} THEN phase ELSE "violated")
         ELSE IF op = "start" THEN (IF phase = "new" THEN "running" ELSE "violated")
         ELSE IF op = "update"
              THEN (IF phase = "running" /\ style = bar THEN "running" ELSE "violated")
         ELSE (IF phase = "running" THEN "terminating" ELSE "violated")
    /\ term' = IF term = "none" /\ op \in {"success", "fail"} THEN op ELSE term
    /\ negSent' = (negSent \/ (op = "update" /\ arg < 0))
    /\ updates' = IF op = "update" THEN Append(updates, arg) ELSE updates
    /\ scen' =
         IF scen = 0 /\ op = "start" THEN 1
         ELSE IF scen = 1 /\ op = "update" /\ arg = Quarter THEN 2
         ELSE IF scen = 2 /\ op = "update" /\ arg = One THEN 3
         ELSE IF scen = 3 /\ op = "success" THEN 4
         ELSE -1

CanCall == cpc = "idle" /\ ncalls < MaxCalls

\* a channel index that is allocated and not closed
Open(ch) == ch > 0 /\ ~chans[ch].closed
Closed(ch) == ch > 0 /\ chans[ch].closed
HasRoom(ch) == Len(chans[ch].buf) < ChanCap(style)

\* func (p *Progress) Start(): wg.Add(1), make the channel, go render...
Start ==
    /\ CanCall
    /\ Len(rend) < MaxStarts
    /\ wg' = wg + 1
    /\ chans' = Append(chans, [buf |-> << >>, closed |-> FALSE])
    /\ rend' = Append(rend, NewRenderer)
    /\ IF style = bar
       THEN cpc' = "start_send" /\ carg' = Msg(0, "start", 0)
       ELSE cpc' = "idle" /\ carg' = NoMsg
    /\ CallBook("start", 0)
    /\ UNCHANGED <<style, delay, Prompt, mtx, output, newPrompt, sigEarly>>

\* Start, case bar: p.cf <- 0.0
StartSend ==
    /\ cpc = "start_send"
    /\ Open(cf) /\ HasRoom(cf)
    /\ chans' = [chans EXCEPT ![cf].buf = Append(@, carg)]
    /\ cpc' = "idle"
    /\ carg' = NoMsg
    /\ UNCHANGED <<style, delay, Prompt, wg, mtx, rend, output, newPrompt, ncalls, phase, term, negSent, updates, sigEarly, scen>>

\* func (p *Progress) Update(pct float64): wg.Add(1), the clamp
Update(pct) ==
    /\ CanCall
    /\ wg' = wg + 1
    /\ carg' = Msg(Clamp(pct), "update", pct)
    /\ cpc' = "upd_send"
    /\ CallBook("update", pct)
    /\ UNCHANGED <<style, delay, Prompt, chans, mtx, rend, output, newPrompt, sigEarly>>

\* Update: p.cf <- pct, then the deferred wg.Done().  A nil p.cf blocks for ever.
UpdateSend ==
    /\ cpc = "upd_send"
    /\ Open(cf) /\ HasRoom(cf)
    /\ chans' = [chans EXCEPT ![cf].buf = Append(@, carg)]
    /\ wg' = wg - 1
    /\ cpc' = "idle"
    /\ carg' = NoMsg
    /\ UNCHANGED <<style, delay, Prompt, mtx, rend, output, newPrompt, ncalls, phase, term, negSent, updates, sigEarly, scen>>

\* Update: the send on a closed p.cf panics; the deferred wg.Done() still runs
UpdatePanic ==
    /\ cpc = "upd_send"
    /\ Closed(cf)
    /\ wg' = wg - 1
    /\ cpc' = "panic"
    /\ UNCHANGED <<style, delay, Prompt, chans, mtx, rend, output, carg, newPrompt, ncalls, phase, term, negSent, updates, sigEarly, scen>>

\* a Fail that sends fail on the control channel of a loading controller too
TermValueFailDistinct(op) ==
    IF style = bar THEN (IF op = "success" THEN SentinelOK ELSE SentinelFail)
    ELSE IF op = "success" THEN success ELSE fail

\* the value Success / Fail send for each style
TermValue(op) ==
    IF style = bar THEN (IF op = "success" THEN SentinelOK ELSE SentinelFail)
    ELSE IF style = spinner THEN (IF op = "success" THEN success ELSE fail)
    ELSE success

\* func (p *Progress) Success() / Fail(): the call arrives at its send.  A
\* loading renderer parked in its delay select takes the value at once.
Terminate(op) ==
    /\ CanCall
    /\ carg' = Msg(TermValue(op), op, 0)
    /\ IF Open(c) /\ rend[c].pc = "ld_parked"
       THEN /\ rend' = [rend EXCEPT ![c].pc = "ld_woken", ![c].result = carg']
            /\ cpc' = "term_wait"
       ELSE /\ rend' = rend
            /\ cpc' = "term_send"
    /\ sigEarly' = (sigEarly \/ (style = loading /\ delay /\ c > 0
                                 /\ rend[c].timer \in {"off", "armed"}))
    /\ CallBook(op, 0)
    /\ UNCHANGED <<style, delay, Prompt, chans, wg, mtx, output, newPrompt>>

Success == Terminate("success")
Fail == Terminate("fail")

\* Success / Fail, case bar: p.cf <- -1.0 / -2.0
TermSendBar ==
    /\ cpc = "term_send"
    /\ Open(cf) /\ HasRoom(cf)
    /\ chans' = [chans EXCEPT ![cf].buf = Append(@, carg)]
    /\ cpc' = "term_wait"
    /\ UNCHANGED <<style, delay, Prompt, wg, mtx, rend, output, carg, newPrompt, ncalls, phase, term, negSent, updates, sigEarly, scen>>

\* Success / Fail: the send on a closed channel panics
TermPanic ==
    /\ cpc = "term_send"
    /\ Closed(TermChan)
    /\ cpc' = "panic"
    /\ UNCHANGED <<style, delay, Prompt, chans, wg, mtx, rend, output, carg, newPrompt,
                   ncalls, phase, term, negSent, updates, sigEarly, scen>>

\* p.wg.Wait() returns when the counter is zero
\* (for comparison: a Wait that never waits)
WaitReturnsAtOnce == TRUE
WaitReturns == wg = 0

\* a Success / Fail that returns after the wait without closing the channel
TermWaitNoClose ==
    /\ cpc = "term_wait"
    /\ WaitReturns
    /\ chans' = chans
    /\ cpc' = "idle"
    /\ carg' = NoMsg
    /\ phase' = IF phase = "terminating" THEN "terminated" ELSE phase
    /\ UNCHANGED <<style, delay, Prompt, wg, mtx, rend, output, newPrompt, ncalls, term, negSent, updates, sigEarly, scen>>

\* Success / Fail: p.wg.Wait(), then close(p.c) / close(p.cf), and the return
TermWait ==
    /\ cpc = "term_wait"
    /\ WaitReturns
    /\ chans' = [chans EXCEPT ![TermChan].closed = TRUE]
    /\ cpc' = "idle"
    /\ carg' = NoMsg
    /\ phase' = IF phase = "terminating" THEN "terminated" ELSE phase
    /\ UNCHANGED <<style, delay, Prompt, wg, mtx, rend, output, newPrompt, ncalls, term, negSent, updates, sigEarly, scen>>

\* func (p *Progress) UpdatePrompt(prompt string): wg.Add(1)
UpdatePrompt(prompt) ==
    /\ CanCall
    /\ wg' = wg + 1
    /\ newPrompt' = prompt
    /\ cpc' = "up_lock"
    /\ CallBook("prompt", 0)
    /\ UNCHANGED <<style, delay, Prompt, chans, mtx, rend, output, carg, sigEarly>>

\* UpdatePrompt: p.mtx.Lock()
UpdatePromptLock ==
    /\ cpc = "up_lock"
    /\ mtx = 0
    /\ mtx' = -1
    /\ cpc' = "up_store"
    /\ UNCHANGED <<style, delay, Prompt, chans, wg, rend, output, carg, newPrompt, ncalls, phase, term, negSent, updates, sigEarly, scen>>

\* UpdatePrompt: p.Prompt = prompt
UpdatePromptStore ==
    /\ cpc = "up_store"
    /\ Prompt' = newPrompt
    /\ cpc' = "up_unlock"
    /\ UNCHANGED <<style, delay, chans, wg, mtx, rend, output, carg, newPrompt, ncalls, phase, term, negSent, updates, sigEarly, scen>>

\* UpdatePrompt: the deferred p.mtx.Unlock() and p.wg.Done()
UpdatePromptUnlock ==
    /\ cpc = "up_unlock"
    /\ mtx' = 0
    /\ wg' = wg - 1
    /\ cpc' = "idle"
    /\ UNCHANGED <<style, delay, Prompt, chans, rend, output, carg, newPrompt, ncalls, phase, term, negSent, updates, sigEarly, scen>>

\* ---------------------------------------------------------- the renderers
CallerUnch == UNCHANGED <<newPrompt, ncalls, phase, term, negSent, updates, sigEarly, scen>>
ConfUnch == UNCHANGED <<style, delay>>

\* renderer r has been launched by go render...(p, ...)
Spawned(r) == r \in 1..Len(rend)

\* a receive from the unbuffered channel of renderer r can proceed: the caller
\* is parked in its send on that channel, or the channel is closed
SenderParked(r) == cpc = "term_send" /\ style # bar /\ c = r /\ Open(r)
RecvReady(r) == SenderParked(r) \/ chans[r].closed
\* the value received (the zero value from a closed channel)
Received(r) == IF SenderParked(r) THEN carg ELSE Msg(0, "closed", 0)
\* the sender of a received value goes on to p.wg.Wait()
Release(r) == cpc' = IF SenderParked(r) THEN "term_wait" ELSE cpc

\* the return of a renderer: the deferred p.wg.Done()
\* (for comparison: a return without the deferred Done)
ReturnNoDone(r) == wg' = wg
Return(r) == wg' = wg - 1

\* renderSpinner: p.mtx.Lock(); promptLen := len(p.Prompt)
\* (promptLen and dotLen are not used by any write)
SpinnerInitLock(r) ==
    /\ Spawned(r)
    /\ rend[r].pc = "sp_init"
    /\ mtx = 0
    /\ mtx' = r
    /\ rend' = [rend EXCEPT ![r].pc = "sp_init_held"]
    /\ UNCHANGED <<Prompt, chans, wg, output, cpc, carg>>
    /\ CallerUnch /\ ConfUnch

\* renderSpinner: p.mtx.Unlock() after the read of the prompt length
SpinnerInitUnlock(r) ==
    /\ Spawned(r)
    /\ rend[r].pc = "sp_init_held"
    /\ mtx' = 0
    /\ rend' = [rend EXCEPT ![r].pc = "select"]
    /\ UNCHANGED <<Prompt, chans, wg, output, cpc, carg>>
    /\ CallerUnch /\ ConfUnch

\* the animation frames drawn so far by all renderers
RECURSIVE FramesDrawn(_)
FramesDrawn(n) == IF n = 0 THEN 0 ELSE rend[n].i + FramesDrawn(n - 1)
MayDraw == FramesDrawn(Len(rend)) < MaxFrames

\* renderSpinner: select, case result := <-c; a result that is neither
\* success nor fail draws nothing and returns
SpinnerRecv(r) ==
    /\ Spawned(r)
    /\ style = spinner
    /\ rend[r].pc = "select"
    /\ RecvReady(r)
    /\ Release(r)
    /\ LET res == Received(r) IN
       IF res.v \in {success, fail}
       THEN /\ rend' = [rend EXCEPT ![r].pc = "lock", ![r].result = res,
                                    ![r].kind = IF res.v = success THEN "ok" ELSE "fail"]
            /\ wg' = wg
       ELSE /\ rend' = [rend EXCEPT ![r].pc = "done", ![r].result = res]
            /\ Return(r)
    /\ UNCHANGED <<Prompt, chans, mtx, output, carg>>
    /\ CallerUnch /\ ConfUnch

\* renderSpinner: select, default
SpinnerDefault(r) ==
    /\ Spawned(r)
    /\ style = spinner
    /\ rend[r].pc = "select"
    /\ ~RecvReady(r)
    /\ MayDraw
    /\ rend' = [rend EXCEPT ![r].pc = "lock", ![r].kind = "anim"]
    /\ UNCHANGED <<Prompt, chans, wg, mtx, output, cpc, carg>>
    /\ CallerUnch /\ ConfUnch

\* renderLoading: if p.delay > 0 { t := time.NewTicker(p.delay) ...
LoadingInit(r) ==
    /\ Spawned(r)
    /\ rend[r].pc = "ld_init"
    /\ rend' = IF delay THEN [rend EXCEPT ![r].pc = "ld_gate", ![r].timer = "armed"]
               ELSE [rend EXCEPT ![r].pc = "select"]
    /\ UNCHANGED <<Prompt, chans, wg, mtx, output, cpc, carg>>
    /\ CallerUnch /\ ConfUnch

\* the ticker fires: a tick is buffered in t.C, or handed to the renderer
\* parked in the delay select
TimerFire(r) ==
    /\ Spawned(r)
    /\ rend[r].timer = "armed"
    /\ rend[r].pc \in {"ld_gate", "ld_parked"}
    /\ rend' = [rend EXCEPT ![r].timer = "fired",
                            ![r].pc = IF @ = "ld_parked" THEN "ld_ticked" ELSE @]
    /\ UNCHANGED <<Prompt, chans, wg, mtx, output, cpc, carg>>
    /\ CallerUnch /\ ConfUnch

\* renderLoading: delay select, case <-c: return.  With both cases ready
\* the select takes either.
LoadingGateRecv(r) ==
    /\ Spawned(r)
    /\ rend[r].pc = "ld_gate"
    /\ RecvReady(r)
    /\ Release(r)
    /\ rend' = [rend EXCEPT ![r].pc = "done", ![r].result = Received(r)]
    /\ Return(r)
    /\ UNCHANGED <<Prompt, chans, mtx, output, carg>>
    /\ CallerUnch /\ ConfUnch

\* renderLoading: delay select, case <-t.C: t.Stop()
LoadingGateTick(r) ==
    /\ Spawned(r)
    /\ rend[r].pc \in {"ld_gate", "ld_ticked"}
    /\ rend[r].timer = "fired"
    /\ rend' = [rend EXCEPT ![r].pc = "select", ![r].timer = "stopped"]
    /\ UNCHANGED <<Prompt, chans, wg, mtx, output, cpc, carg>>
    /\ CallerUnch /\ ConfUnch

\* renderLoading: delay select with no case ready: the goroutine parks
LoadingGatePark(r) ==
    /\ Spawned(r)
    /\ rend[r].pc = "ld_gate"
    /\ ~RecvReady(r)
    /\ rend[r].timer = "armed"
    /\ rend' = [rend EXCEPT ![r].pc = "ld_parked"]
    /\ UNCHANGED <<Prompt, chans, wg, mtx, output, cpc, carg>>
    /\ CallerUnch /\ ConfUnch

\* renderLoading: woken in the delay select by the value of Success / Fail: return
LoadingGateWoken(r) ==
    /\ Spawned(r)
    /\ rend[r].pc = "ld_woken"
    /\ rend' = [rend EXCEPT ![r].pc = "done"]
    /\ Return(r)
    /\ UNCHANGED <<Prompt, chans, mtx, output, cpc, carg>>
    /\ CallerUnch /\ ConfUnch

\* renderLoading: loop select, case <-c
\* (for comparison: the case of the delay select, which returns without a write)
LoadingRecvSilent(r) ==
    /\ Spawned(r)
    /\ style = loading
    /\ rend[r].pc = "select"
    /\ RecvReady(r)
    /\ Release(r)
    /\ rend' = [rend EXCEPT ![r].pc = "done", ![r].result = Received(r)]
    /\ Return(r)
    /\ UNCHANGED <<Prompt, chans, mtx, output, carg>>
    /\ CallerUnch /\ ConfUnch
LoadingRecv(r) ==
    /\ Spawned(r)
    /\ style = loading
    /\ rend[r].pc = "select"
    /\ RecvReady(r)
    /\ Release(r)
    /\ rend' = [rend EXCEPT ![r].pc = "lock", ![r].result = Received(r),
                            ![r].kind = "erase"]
    /\ UNCHANGED <<Prompt, chans, wg, mtx, output, carg>>
    /\ CallerUnch /\ ConfUnch

\* renderLoading: loop select, default
LoadingDefault(r) ==
    /\ Spawned(r)
    /\ style = loading
    /\ rend[r].pc = "select"
    /\ ~RecvReady(r)
    /\ MayDraw
    /\ rend' = [rend EXCEPT ![r].pc = "lock", ![r].kind = "anim"]
    /\ UNCHANGED <<Prompt, chans, wg, mtx, output, cpc, carg>>
    /\ CallerUnch /\ ConfUnch

\* a switch whose progress case leaves out the zero fraction
BarKindSkipsZero(v) ==
    IF v = SentinelOK THEN "ok"
    ELSE IF v = SentinelFail THEN "fail"
    ELSE IF v > 0 THEN "prog"
    ELSE "none"

\* renderBar: the switch on the received result
BarKind(v) ==
    IF v = SentinelOK THEN "ok"
    ELSE IF v = SentinelFail THEN "fail"
    ELSE IF v >= 0 THEN "prog"
    ELSE "none"

\* renderBar: for result := range c; the loop ends when c is closed and empty
BarRange(r) ==
    /\ Spawned(r)
    /\ rend[r].pc = "bar_range"
    /\ IF chans[r].buf # << >>
       THEN LET res == Head(chans[r].buf) IN
            /\ chans' = [chans EXCEPT ![r].buf = Tail(@)]
            /\ rend' = [rend EXCEPT ![r].result = res, ![r].kind = BarKind(res.v),
                           ![r].pc = IF BarKind(res.v) = "none" THEN "bar_range" ELSE "lock"]
            /\ wg' = wg
       ELSE /\ chans[r].closed
            /\ chans' = chans
            /\ rend' = [rend EXCEPT ![r].pc = "done"]
            /\ Return(r)
    /\ UNCHANGED <<Prompt, mtx, output, cpc, carg>>
    /\ CallerUnch /\ ConfUnch

\* a renderer that goes on to its write without waiting for the lock
LockNoWait(r) ==
    /\ Spawned(r)
    /\ rend[r].pc = "lock"
    /\ mtx' = r
    /\ rend' = [rend EXCEPT ![r].pc = "write"]
    /\ UNCHANGED <<Prompt, chans, wg, output, cpc, carg>>
    /\ CallerUnch /\ ConfUnch

\* all three renderers: p.mtx.Lock() before a formatted write
Lock(r) ==
    /\ Spawned(r)
    /\ rend[r].pc = "lock"
    /\ mtx = 0
    /\ mtx' = r
    /\ rend' = [rend EXCEPT ![r].pc = "write"]
    /\ UNCHANGED <<Prompt, chans, wg, output, cpc, carg>>
    /\ CallerUnch /\ ConfUnch

\* the text of the fmt.Fprintf under the lock, by renderer and case
Frame(r) ==
    LET k == rend[r].kind
        res == rend[r].result.v
    IN  IF style = spinner
        THEN IF k = "anim"
             THEN Write("anim", "hide", Prompt, 0, 0, spinLookup(rend[r].i, spinsteps), FALSE)
             ELSE IF k = "ok"
             THEN Write("ok", "show", Prompt, 0, 0, <<"O", "K">>, TRUE)
             ELSE Write("fail", "show", Prompt, 0, 0, <<"F", "A", "I", "L">>, TRUE)
        ELSE IF style = bar
        THEN IF k = "ok"
             THEN Write("ok", "hide", Prompt, DisplayLength, 0, <<"1", "0", "0", "%">>, FALSE)
             ELSE IF k = "fail"
             THEN Write("fail", "hide", Prompt, DisplayLength, 0, <<"F", "A", "I", "L">>, FALSE)
             ELSE Write("prog", "hide", Prompt, eqLenOf(res), DisplayLength - eqLenOf(res),
                        pctOf(res), FALSE)
        ELSE IF k = "anim"
             THEN Write("anim", "hide", Prompt, 0, 0, spinLookup(rend[r].i, spinsteps), FALSE)
             ELSE Write("erase", "hide", << >>, 0, Len(spinsteps[1]) + Len(Prompt) + 3,
                        << >>, TRUE)

\* all three renderers: fmt.Fprintf(p.output, ...) of one frame
WriteFrame(r) ==
    /\ Spawned(r)
    /\ rend[r].pc = "write"
    /\ output' = Append(output, Frame(r))
    /\ rend' = [rend EXCEPT ![r].pc = "unlock"]
    /\ UNCHANGED <<Prompt, chans, wg, mtx, cpc, carg>>
    /\ CallerUnch /\ ConfUnch

\* a spinner whose terminal cases fall back into the loop instead of returning
AfterUnlockNoReturn(r) ==
    LET k == rend[r].kind IN
    IF k = "anim" THEN "sleep"
    ELSE IF k = "prog" THEN "bar_range"
    ELSE IF style = bar THEN "bar_show"
    ELSE IF style = spinner THEN "sleep"
    ELSE "done"

\* where a renderer goes after the p.mtx.Unlock() that follows a write
AfterUnlock(r) ==
    LET k == rend[r].kind IN
    IF k = "anim" THEN "sleep"
    ELSE IF k = "prog" THEN "bar_range"
    ELSE IF style = bar THEN "bar_show"
    ELSE "done"

\* a renderer that leaves its write without releasing the lock
UnlockLate(r) ==
    /\ Spawned(r)
    /\ rend[r].pc = "unlock"
    /\ mtx' = mtx
    /\ rend' = [rend EXCEPT ![r].pc = AfterUnlock(r)]
    /\ IF AfterUnlock(r) = "done" THEN Return(r) ELSE wg' = wg
    /\ UNCHANGED <<Prompt, chans, output, cpc, carg>>
    /\ CallerUnch /\ ConfUnch

\* all three renderers: p.mtx.Unlock() after the write; the spinner's and the
\* loading renderer's terminal cases return
Unlock(r) ==
    /\ Spawned(r)
    /\ rend[r].pc = "unlock"
    /\ mtx' = 0
    /\ rend' = [rend EXCEPT ![r].pc = AfterUnlock(r)]
    /\ IF AfterUnlock(r) = "done" THEN Return(r) ELSE wg' = wg
    /\ UNCHANGED <<Prompt, chans, output, cpc, carg>>
    /\ CallerUnch /\ ConfUnch

\* renderSpinner / renderLoading: time.Sleep(...), then i++
Sleep(r) ==
    /\ Spawned(r)
    /\ rend[r].pc = "sleep"
    /\ rend' = [rend EXCEPT ![r].pc = "select", ![r].i = @ + 1]
    /\ UNCHANGED <<Prompt, chans, wg, mtx, output, cpc, carg>>
    /\ CallerUnch /\ ConfUnch

\* renderBar: fmt.Fprintf(p.output, "\x1b[?25h\n") outside the lock; return
BarShowCursor(r) ==
    /\ Spawned(r)
    /\ rend[r].pc = "bar_show"
    /\ output' = Append(output, Write("show", "show", << >>, 0, 0, << >>, TRUE))
    /\ rend' = [rend EXCEPT ![r].pc = "done"]
    /\ Return(r)
    /\ UNCHANGED <<Prompt, chans, mtx, cpc, carg>>
    /\ CallerUnch /\ ConfUnch

\* ------------------------------------------------------ the specification
Caller ==
    \/ Start
    \/ StartSend
    \/ \E pct \in UpdateArgs : Update(pct)
    \/ UpdateSend
    \/ UpdatePanic
    \/ Success
    \/ Fail
    \/ TermSendBar
    \/ TermPanic
    \/ TermWait
    \/ \E prompt \in Prompts : UpdatePrompt(prompt)
    \/ UpdatePromptLock
    \/ UpdatePromptStore
    \/ UpdatePromptUnlock

\* the steps of renderSpinner, renderLoading and renderBar; Lock, WriteFrame,
\* Unlock and Sleep are the same statements in each
Renderer(r) ==
    \/ SpinnerInitLock(r)
    \/ SpinnerInitUnlock(r)
    \/ SpinnerRecv(r)
    \/ SpinnerDefault(r)
    \/ LoadingInit(r)
    \/ TimerFire(r)
    \/ LoadingGateRecv(r)
    \/ LoadingGateTick(r)
    \/ LoadingGatePark(r)
    \/ LoadingGateWoken(r)
    \/ LoadingRecv(r)
    \/ LoadingDefault(r)
    \/ BarRange(r)
    \/ Lock(r)
    \/ WriteFrame(r)
    \/ Unlock(r)
    \/ Sleep(r)
    \/ BarShowCursor(r)

Next == Caller \/ \E r \in 1..MaxStarts : Renderer(r)

Spec == Init /\ [][Next]_vars

\* the runs of a controller made by NewProgressBar: p.style never changes, so
\* these are the behaviours of Spec that start with style = bar
InitBar == Init /\ style = bar
RendererBar(r) ==
    \/ BarRange(r)
    \/ Lock(r)
    \/ WriteFrame(r)
    \/ Unlock(r)
    \/ BarShowCursor(r)
NextBar == Caller \/ \E r \in 1..MaxStarts : RendererBar(r)
SpecBar == InitBar /\ [][NextBar]_vars

\* the renderer goroutines run, and time passes: every renderer that can take
\* a step eventually does.  The caller finishes the call it is in; sync.Mutex
\* hands the lock to a waiter that has waited long (starvation mode), so the
\* caller's Lock() is strongly fair.  Whether the caller makes another call
\* is up to the caller.
CallerStep ==
    \/ StartSend
    \/ UpdateSend
    \/ UpdatePanic
    \/ TermSendBar
    \/ TermPanic
    \/ TermWait
    \/ UpdatePromptStore
    \/ UpdatePromptUnlock
Fairness ==
    /\ \A r \in 1..MaxStarts : WF_vars(Renderer(r))
    /\ WF_vars(CallerStep)
    /\ SF_vars(UpdatePromptLock)
FairSpec == Init /\ [][Next]_vars /\ Fairness

\* ------------------------------------------------------------ properties
Last(seq) == seq[Len(seq)]
AllDone == \A r \in 1..Len(rend) : rend[r].pc = "done"
\* the frames written so far: every write but the bar's bare show-cursor line
Frames == SelectSeq(output, LAMBDA w : w.kind # "show")
ProgFills == [k \in 1..Len(SelectSeq(output, LAMBDA w : w.kind = "prog")) |->
                 SelectSeq(output, LAMBDA w : w.kind = "prog")[k].fill]

\* the terminal output of the one renderer of a run that kept the lifecycle
TerminalOutputWritten ==
    IF style = spinner
    THEN /\ output # << >>
         /\ Last(output).kind = (IF term = "success" THEN "ok" ELSE "fail")
         /\ Last(output).cursor = "show" /\ Last(output).nl
    ELSE IF style = bar
    THEN /\ Len(output) >= 2
         /\ Last(output) = Write("show", "show", << >>, 0, 0, << >>, TRUE)
         /\ output[Len(output) - 1].kind \in {"ok", "fail"}
    ELSE \/ output = << >> /\ delay /\ rend[1].timer # "stopped"
         \/ output # << >> /\ Last(output).kind = "erase" /\ Last(output).nl

\* C1: once Success / Fail has returned (lifecycle Start, Update / UpdatePrompt
\* calls, one Success or Fail), the renderer has written its terminal output
\* and has exited, and nothing is written to the output afterwards.
C1_ReturnAfterFinalDraw ==
    /\ [](phase = "terminated" => AllDone /\ wg = 0 /\ TerminalOutputWritten)
    /\ [][phase = "terminated" => output' = output]_vars
C1_Witness ==
    /\ phase = "terminated" /\ Len(rend) = 1 /\ rend[1].pc = "done"
    /\ Len(output) >= 2

\* C2: under fair scheduling, every call made within the lifecycle (one Start,
\* then UpdatePrompt and Update calls with fractions >= 0, then one Success or
\* Fail) returns: the caller never stays inside Update, Success or Fail.
InLifecycleCall == cpc # "idle" /\ phase \in {"running", "terminating"} /\ ~negSent
C2_ShutdownLive == InLifecycleCall ~> (cpc = "idle")
C2_Witness ==
    /\ phase = "terminated" /\ ~negSent /\ style = bar
    /\ Len(ProgFills) >= 2

\* floor(f' * displayWidth) with f' = min(max(f, 0), 1)
Clamp01(f) == IF f < 0 THEN 0 ELSE IF f > One THEN One ELSE f
FloorFill(f) == (Clamp01(f) * DisplayLength) \div FracDen

\* C3: every fraction f passed to Update on a started bar is sent as
\* f' = min(max(f, 0), 1), and the renderer that receives it draws a progress
\* frame whose fill length is floor(f' * displayWidth).
C3_EveryFractionDrawnClamped ==
    /\ (cpc = "upd_send" /\ phase = "running") => carg.v = Clamp01(carg.f)
    /\ \A r \in 1..Len(rend) :
         (phase = "running" /\ rend[r].result.src = "update") =>
            /\ rend[r].kind = "prog"
            /\ rend[r].pc \in {"lock", "write", "unlock", "bar_range"}
            /\ rend[r].pc \in {"unlock", "bar_range"} =>
                 /\ Last(output).kind = "prog"
                 /\ Last(output).fill = FloorFill(rend[r].result.f)

\* C4: on a started bar, once Success has returned the last frame drawn is the
\* fully filled bar with the "100%" marker, whatever Update calls came before.
C4_SuccessDrawsFullBar ==
    (style = bar /\ phase = "terminated" /\ term = "success") =>
        /\ Frames # << >>
        /\ Last(Frames).kind = "ok"
        /\ Last(Frames).fill = DisplayLength
        /\ Last(Frames).mark = <<"1", "0", "0", "%">>

\* C5: on a started bar or spinner, once Fail has returned the last frame drawn
\* is the failure frame (the X-filled bar with FAIL, or "<label>[FAIL]"),
\* whatever came before.
C5_FailDrawsFailFrame ==
    (style \in {bar, spinner} /\ phase = "terminated" /\ term = "fail") =>
        /\ Frames # << >>
        /\ Last(Frames).kind = "fail"
        /\ Last(Frames).mark = <<"F", "A", "I", "L">>
        /\ style = bar => Last(Frames).fill = DisplayLength

\* C6: a loading indicator with a delay whose Success / Fail is called before
\* the delay ticker fires writes nothing at all, in every interleaving.
C6_NoOutputWhenSignalledEarly ==
    (style = loading /\ delay /\ sigEarly /\ phase \in {"terminating", "terminated"})
        => output = << >>

\* C7 as claimed: a loading indicator whose ticker fired before Success / Fail
\* was called (or whose delay is zero) has drawn at least one animated frame
\* before the erase line.
C7_FrameBeforeErase ==
    (style = loading /\ ~sigEarly /\ phase = "terminated") =>
        /\ Len(output) >= 2
        /\ output[1].kind = "anim"
        /\ Last(output).kind = "erase"

\* C7 as amended: a loading renderer that left the delay select through the
\* ticker (or has no delay) always writes the erase line, as its last write,
\* and only animated frames before it (none when Success / Fail is already
\* pending at the first iteration of the loop).
C7_EraseAfterFramesOnly ==
    (style = loading /\ phase = "terminated" /\ (~delay \/ rend[1].timer = "stopped")) =>
        /\ output # << >>
        /\ Last(output).kind = "erase"
        /\ \A k \in 1..(Len(output) - 1) : output[k].kind = "anim"
C7_Witness ==
    /\ style = loading /\ phase = "terminated" /\ delay /\ rend[1].timer = "stopped"
    /\ Len(output) = 1 /\ output[1].kind = "erase"

\* C8: a renderer exits only after Success or Fail has been called; Update
\* and UpdatePrompt calls alone never make it exit.
C8_ExitOnlyAfterTermination ==
    \A r \in 1..Len(rend) : rend[r].pc = "done" => term # "none"

\* C9: Start never waits for the renderer: its send of 0.0 can always proceed
\* at once, also when the renderer has not taken a step; and one Start has
\* launched exactly one renderer with its channel.
C9_StartNeverBlocks ==
    /\ cpc = "start_send" => (Open(cf) /\ HasRoom(cf))
    /\ phase = "running" => (Len(rend) = 1 /\ Len(chans) = 1)
C9_Witness ==
    /\ cpc = "start_send" /\ Len(rend) = 1
    /\ rend[1].pc = "bar_range" /\ chans[1].buf = << >>

\* C10 as claimed: in the run Start, Update(0.25), Update(1.0), Success every
\* progress frame has a fill length from floor(0.25 * displayWidth) to displayWidth.
InScenario == scen \in 1..4
C10_NoFillBelowQuarter ==
    InScenario =>
        \A k \in 1..Len(ProgFills) :
            /\ ProgFills[k] >= (Quarter * DisplayLength) \div FracDen
            /\ ProgFills[k] <= DisplayLength

\* C10 as amended: in that run the first progress frame is the 0% frame of
\* Start, with fill length 0; every later progress frame has a fill length
\* from floor(0.25 * displayWidth) to displayWidth.
C10_NoFillBelowQuarterAfterFirst ==
    InScenario =>
        \A k \in 1..Len(ProgFills) :
            IF k = 1 THEN ProgFills[k] = 0
            ELSE /\ ProgFills[k] >= (Quarter * DisplayLength) \div FracDen
                 /\ ProgFills[k] <= DisplayLength
C10_Witness ==
    /\ scen = 4 /\ phase = "terminated"
    /\ Len(ProgFills) = 3

\* the progress frames written so far, and the fractions a bar was given: the
\* 0.0 of Start, then the clamped fraction of every Update in call order
ProgFrames == SelectSeq(output, LAMBDA w : w.kind = "prog")
SentFractions == <<0>> \o [k \in 1..Len(updates) |-> Clamp(updates[k])]

\* C11: on a bar whose Update calls all have fractions >= 0, the progress
\* frames drawn are the 0% frame of Start followed by one frame per Update call
\* in call order: while the bar runs they are a prefix of that sequence, none
\* dropped, doubled or out of order; no progress frame follows the terminal
\* frame; and once Success / Fail has returned they are the whole sequence.
C11_OneFramePerUpdateInOrder ==
    (phase \in {"running", "terminating", "terminated"} /\ ~negSent) =>
        /\ Len(ProgFrames) <= Len(SentFractions)
        /\ \A k \in 1..Len(ProgFrames) :
              /\ ProgFrames[k].fill = eqLenOf(SentFractions[k])
              /\ ProgFrames[k].mark = pctOf(SentFractions[k])
        /\ \A j \in 1..Len(output) : \A k \in 1..Len(output) :
              (j < k /\ output[j].kind \in {"ok", "fail"}) => output[k].kind # "prog"
        /\ phase = "terminated" => Len(ProgFrames) = Len(SentFractions)
C11_Witness ==
    /\ phase = "terminated" /\ updates = <<One, Quarter>>
    /\ Len(ProgFrames) = 3 /\ ProgFrames[2].fill > ProgFrames[3].fill

\* the terminal lines ("[OK]" / "[FAIL]") written so far
TerminalLines == SelectSeq(output, LAMBDA w : w.kind \in {"ok", "fail"})

\* C12: a spinner run through its lifecycle (one Start, UpdatePrompt calls, one
\* Success or Fail, Fail or Success directly after Start included) writes at
\* most one terminal line, "[OK]" for Success and "[FAIL]" for Fail, with
\* nothing but animation frames before it and nothing after it; when Success /
\* Fail has returned there is exactly one, and it is the last write.
C12_SpinnerOneTerminalLineLast ==
    (style = spinner /\ phase # "violated") =>
        /\ Len(TerminalLines) <= 1
        /\ \A k \in 1..Len(output) :
              IF output[k].kind \in {"ok", "fail"}
              THEN /\ k = Len(output)
                   /\ output[k].kind = (IF term = "success" THEN "ok" ELSE "fail")
                   /\ output[k].mark = (IF term = "success" THEN <<"O", "K">>
                                        ELSE <<"F", "A", "I", "L">>)
              ELSE output[k].kind = "anim"
        /\ phase = "terminated" => Len(TerminalLines) = 1
C12_Witness ==
    /\ style = spinner /\ phase = "terminated" /\ term = "fail"
    /\ output = <<Write("fail", "show", InitPrompt, 0, 0, <<"F", "A", "I", "L">>, TRUE)>>

\* the caller is at the send of Success / Fail, or of a bar's Update, and the
\* channel of that send is closed
ClosedSend ==
    \/ cpc = "term_send" /\ Closed(TermChan)
    \/ cpc = "upd_send" /\ style = bar /\ Closed(cf)

\* C13: a Success / Fail that returns leaves its channel closed; while it is
\* closed (no Start since), every further Success / Fail of any style and every
\* further Update of a bar arrives at a send on the closed channel; the only
\* step from there is the panic; from the panic the call never returns, and
\* from the closed send on nothing more is written to the output.
C13_SendOnClosedIsFatal ==
    /\ [][(cpc = "term_wait" /\ cpc' = "idle") => Closed(TermChan)']_vars
    /\ [][(/\ cpc = "idle" /\ Closed(TermChan)
           /\ cpc' \in {"term_send", "term_wait", "upd_send"}
           /\ (cpc' = "upd_send" => style = bar)) => ClosedSend']_vars
    /\ [](ClosedSend => AllDone)
    /\ [][ClosedSend => (cpc' = "panic" /\ output' = output)]_vars
    /\ [][cpc = "panic" => (cpc' = "panic" /\ output' = output)]_vars
C13_Witness ==
    /\ cpc = "panic" /\ carg.src = "fail" /\ term = "success"
    /\ Closed(TermChan) /\ output # << >>

\* the caller is at the send of an Update on a spinner or loading controller
UpdateOffBar == cpc = "upd_send" /\ style # bar

\* C14 as stated: an Update on a spinner or loading controller ends in a fatal
\* error of the kind of a send on a closed channel, that is, its send panics.
C14_UpdateOffBarPanics == UpdateOffBar => ENABLED UpdatePanic

\* C14, amended: a spinner or loading controller never has a numeric channel,
\* and an Update on one stays at its send on the nil channel for ever: the
\* send neither completes nor panics, the call never returns, and the barrier
\* keeps counting it.
C14_UpdateOffBarBlocks ==
    /\ [](style # bar => cf = 0)
    /\ [](UpdateOffBar => (~ENABLED UpdateSend /\ ~ENABLED UpdatePanic /\ wg >= 1))
    /\ [][UpdateOffBar => (cpc' = "upd_send" /\ carg' = carg)]_vars
C14_Witness ==
    /\ UpdateOffBar /\ style = spinner /\ Len(rend) = 1
    /\ rend[1].pc = "sleep" /\ Len(output) >= 2

\* C15: on a loading controller Fail does what Success does: both send the
\* same value (success), so every termination signal in flight or received
\* carries that value whichever call sent it; the renderer writes animation
\* frames and the erase line only, never an "[OK]" or "[FAIL]" frame; and
\* when the call has returned the output is empty (still gated) or ends with
\* the erase line, after Fail as after Success.
C15_LoadingFailIsSuccess ==
    style = loading =>
        /\ TermValue("fail") = TermValue("success")
        /\ carg.src \in {"success", "fail"} => carg.v = success
        /\ \A r \in 1..Len(rend) :
              rend[r].result.src \in {"success", "fail"} => rend[r].result.v = success
        /\ \A k \in 1..Len(output) :
              /\ output[k].kind \in {"anim", "erase"}
              /\ output[k].kind = "erase" => (output[k].mark = << >> /\ output[k].label = << >>)
        /\ phase = "terminated" => (output = << >> \/ Last(output).kind = "erase")
C15_Witness ==
    /\ style = loading /\ term = "fail" /\ phase = "terminated"
    /\ Len(output) >= 2 /\ Last(output).kind = "erase"
    /\ rend[1].result.src = "fail" /\ rend[1].result.v = success

\* a step that writes a frame (any write but the bar's bare show-cursor line)
FrameWritten == Len(output') = Len(output) + 1 /\ Last(output').kind # "show"
\* no UpdatePrompt call is in progress
NoPromptCall == cpc \notin {"up_lock", "up_store", "up_unlock"}

\* C16: UpdatePrompt stores the label only while it holds the lock, and a
\* renderer is at a read of the label (its writes, and the spinner's length
\* read) only while it holds the lock, so the two never overlap; every frame
\* shows one of the labels given, whole; and a frame written while no
\* UpdatePrompt call is in progress shows the label last given (the erase line
\* of a loading indicator, which shows no label, is as wide as that label).
C16_PromptUnderLock ==
    /\ [](cpc \in {"up_store", "up_unlock"} => mtx = -1)
    /\ [](\A r \in 1..Len(rend) :
            rend[r].pc \in {"sp_init_held", "write", "unlock"} => mtx = r)
    /\ [](\A k \in 1..Len(output) :
            output[k].kind \in {"anim", "ok", "fail", "prog"} =>
               output[k].label \in ({InitPrompt} \cup Prompts))
    /\ [][(FrameWritten /\ NoPromptCall) =>
             IF Last(output').kind = "erase"
             THEN Last(output').blank = Len(spinsteps[1]) + Len(newPrompt) + 3
             ELSE Last(output').label = newPrompt]_vars
C16_Witness ==
    /\ cpc = "idle" /\ Len(output) >= 2
    /\ output[1].label = InitPrompt
    /\ Last(output).label = <<"x", "y", "z">>

\* the animation frames written so far
AnimFrames == SelectSeq(output, LAMBDA w : w.kind = "anim")

\* C17: for the one renderer of a spinner or loading controller, with n the
\* number of frames of the wheel, the k-th animation frame drawn (from 0) shows
\* frame k mod n of the wheel, so frames n apart are equal; and the renderer's
\* index is the number of frames drawn, less the one just drawn until the
\* sleep after it is over.
C17_CyclicFrameSelection ==
    (style \in {spinner, loading} /\ Len(rend) = 1) =>
        LET n == Len(spinsteps) IN
        /\ \A k \in 1..Len(AnimFrames) :
              /\ AnimFrames[k].mark = spinsteps[((k - 1) % n) + 1]
              /\ k + n <= Len(AnimFrames) => AnimFrames[k + n].mark = AnimFrames[k].mark
        /\ rend[1].i = Len(AnimFrames) -
              (IF rend[1].pc \in {"unlock", "sleep"} /\ rend[1].kind = "anim" THEN 1 ELSE 0)
C17_Witness ==
    /\ style = loading /\ Len(rend) = 1
    /\ Len(AnimFrames) = Len(spinsteps) + 1
    /\ AnimFrames[Len(spinsteps) + 1].mark = spinsteps[1]
    /\ rend[1].i = Len(spinsteps) + 1

\* the places where a renderer holds the lock: the spinner's read of the
\* label's length, and a formatted write up to its Unlock
HoldsLock(r) == rend[r].pc \in {"sp_init_held", "write", "unlock"}
\* the renderer sleeps for its tick, waits in the delay select, or is at a
\* channel receive (the select of its loop, the bar's range)
Waiting(r) ==
    rend[r].pc \in {"sleep", "ld_gate", "ld_parked", "ld_ticked", "ld_woken",
                    "select", "bar_range"}

\* C18: a renderer that sleeps, waits on the delay timer or is at a channel
\* receive does not hold the lock, and a renderer holds it only from a Lock to
\* the Unlock after the one statement in between; so, under fair scheduling,
\* every UpdatePrompt call that waits for the lock gets it and returns.
C18_LockOnlyAroundWrite ==
    /\ [](\A r \in 1..Len(rend) :
            /\ Waiting(r) => mtx # r
            /\ mtx = r => HoldsLock(r))
    /\ (cpc = "up_lock") ~> (cpc = "idle")
C18_Witness ==
    /\ Len(rend) = 1 /\ rend[1].pc = "sleep"
    /\ cpc = "up_store" /\ mtx = -1

\* C19: once Success / Fail has returned (lifecycle run, any style), every
\* hide-cursor sequence written is followed by a later show-cursor sequence,
\* so the cursor is not left hidden.
C19_CursorNotLeftHidden ==
    phase = "terminated" =>
        \A k \in 1..Len(output) :
            output[k].cursor = "hide" =>
                \E j \in (k + 1)..Len(output) : output[j].cursor = "show"

\* Start was called twice and no Success / Fail returned before the second
\* Start (one that returned would have closed the first channel)
TwoStarts == Len(rend) = 2 /\ ~chans[1].closed

\* C20: after two Starts with no termination before the second, the channel
\* field is the second renderer's channel; the first renderer is never
\* signalled and never exits, so the barrier stays above zero; and a Success
\* / Fail called then never returns.
C20_SecondStartLeaksFirstRenderer ==
    TwoStarts =>
        /\ TermChan = 2
        /\ rend[1].pc # "done" /\ wg >= 1
        /\ rend[1].result.src \notin {"success", "fail"}
        /\ \A k \in 1..Len(chans[1].buf) : chans[1].buf[k].src \notin {"success", "fail"}
        /\ term # "none" => cpc \in {"term_send", "term_wait"}

====
